---- MODULE Spec2Model ----
(***************************************************************************)
(* Model of web-app/app.py: the item resource served over HTTP verbs and   *)
(* backed by the process-wide dict `items`, plus the login and upload      *)
(* endpoints.                                                              *)
(*                                                                         *)
(* Every handler is an `async def` without an await that touches `items`,  *)
(* so the event loop runs each handler body to completion: concurrent      *)
(* requests of different clients are served one whole handler at a time,   *)
(* in an order the server chooses.  One action of the model is therefore   *)
(* one request served, and Next picks any request at any time.             *)
(***************************************************************************)
EXTENDS Integers, Sequences, FiniteSets, TLC

VARIABLES
    items,      \* the dict `items`: a function from its keys to Items
    last,       \* the request served last and the response sent for it
    created     \* history: the ids returned by create_item so far

vars == <<items, last, created>>

(***************************************************************************)
(* Bounds of the model.                                                    *)
(***************************************************************************)
\* create_item is served only while the id it assigns is at most MaxId
MaxId == 2

\* the largest item_id the clients put in a path
MaxPathId == 1

\* the path parameter item_id is any int: the ids the clients try
PathIds == 0..MaxPathId

(***************************************************************************)
(* Data models.                                                            *)
(***************************************************************************)
\* Python's None
NULL == "null"

Fields == {"name", "description", "price", "tax"}

\* class Item: name and price are required, description and tax default to
\* None.  Prices and taxes are written as their decimal literals.
Item(name, description, price, tax) ==
    [name |-> name, description |-> description, price |-> price, tax |-> tax]

\* class ItemUpdate: every field defaults to None; fields_set is the set of
\* fields the request body gave explicitly (what exclude_unset keeps)
ItemUpdate(name, description, price, tax, fields_set) ==
    [name |-> name, description |-> description, price |-> price, tax |-> tax,
     fields_set |-> fields_set]

\* request bodies that pass validation as an Item
ItemBodies ==
    { Item("Pen", NULL, "1.5", NULL),
      Item("Cup", "blue", "2.0", "0.1") }

\* request bodies that pass validation as an ItemUpdate:
\* {}, {"price": 2.0}, {"description": null}, {"name": null}
UpdateBodies ==
    { ItemUpdate(NULL, NULL, NULL, NULL, {}),
      ItemUpdate(NULL, NULL, "2.0", NULL, {"price"}),
      ItemUpdate(NULL, NULL, NULL, NULL, {"description"}),
      ItemUpdate(NULL, NULL, NULL, NULL, {"name"}) }

Queries == {NULL, "pen"}

Usernames == {"admin", "guest"}

Passwords == {"secret", "hunter2"}

\* uploaded files: a name and the bytes read from it
Uploads ==
    { [filename |-> "empty.txt", contents |-> <<>>],
      [filename |-> "a.bin", contents |-> <<97, 98, 99>>] }

(***************************************************************************)
(* Responses.                                                              *)
(***************************************************************************)
\* status codes of fastapi.status used by the handlers
HTTP_200_OK == 200
HTTP_201_CREATED == 201
HTTP_204_NO_CONTENT == 204
HTTP_401_UNAUTHORIZED == 401
HTTP_404_NOT_FOUND == 404

NoHeaders == {}

EmptyBody == [kind |-> "empty"]

TextBody(content) == [kind |-> "text", text |-> content]

JsonBody(content) == [kind |-> "json", json |-> content]

\* Response(status_code=..., content=...): a response object built by the
\* handler itself; it carries only the headers given to it (none here)
Response(status_code, body) ==
    [status_code |-> status_code, headers |-> NoHeaders, body |-> body]

\* the `response: Response` parameter a handler may declare: headers set on
\* it are added to the response the framework builds from a returned value
SetHeader(headers, name, value) == headers \cup {<<name, value>>}

\* a handler returns either a Response object or a value to serialise
ReturnResponse(response) == [is_response |-> TRUE, value |-> response]

ReturnValue(value) == [is_response |-> FALSE, value |-> value]

\* What the route sends for a handler's return value: a returned Response
\* object is sent as it is (the headers set on the injected response
\* parameter are not copied into it); any other value becomes a JSON body
\* with the route's status_code and the injected response's headers.
Send(returned, status_code, response_headers) ==
    IF returned.is_response
    THEN returned.value
    ELSE [status_code |-> status_code,
          headers |-> response_headers,
          body |-> JsonBody(returned.value)]

\* {"item_id": item_id, **item.dict()}
ItemDict(item_id, item) ==
    [item_id |-> item_id, name |-> item.name, description |-> item.description,
     price |-> item.price, tax |-> item.tax]

\* the result of a handler: the dict afterwards and the response sent
Outcome(new_items, response) == [items |-> new_items, response |-> response]

(***************************************************************************)
(* The store: dict operations.                                             *)
(***************************************************************************)
RECURSIVE SetMax(_)
SetMax(S) ==
    LET x == CHOOSE y \in S : TRUE
    IN  IF S = {x} THEN x
        ELSE LET m == SetMax(S \ {x}) IN IF x > m THEN x ELSE m

\* max(items.keys(), default=0)
max_default(keys, default) == IF keys = {} THEN default ELSE SetMax(keys)

\* items.get(item_id): <<>> stands for None, <<item>> for a found item
get(d, item_id) == IF item_id \in DOMAIN d THEN <<d[item_id]>> ELSE <<>>

\* items[item_id] = item
setitem(d, item_id, item) ==
    [k \in DOMAIN d \cup {item_id} |-> IF k = item_id THEN item ELSE d[k]]

\* items.clear() in place of del items[item_id]
delitem_clears_all(d, item_id) == << >>

\* del items[item_id]
delitem(d, item_id) == [k \in DOMAIN d \ {item_id} |-> d[k]]

(***************************************************************************)
(* The handlers, as functions of the dict and the validated parameters.    *)
(***************************************************************************)
\* read_item answering 404 for a missing item, as the other routes do
read_item_404_when_missing(d, item_id, q) ==
    IF item_id \in DOMAIN d
    THEN Outcome(d,
                 Send(ReturnValue([item_id |-> item_id, item |-> get(d, item_id), q |-> q]),
                      HTTP_200_OK, NoHeaders))
    ELSE Outcome(d, Send(ReturnResponse(Response(HTTP_404_NOT_FOUND, EmptyBody)),
                         HTTP_200_OK, NoHeaders))

\* GET /items/{item_id}
read_item(d, item_id, q) ==
    Outcome(d,
            Send(ReturnValue([item_id |-> item_id, item |-> get(d, item_id), q |-> q]),
                 HTTP_200_OK, NoHeaders))

\* new_id with the "+ 1" forgotten
new_id_no_increment(d) == max_default(DOMAIN d, 0)

\* new_id = max(items.keys(), default=0) + 1
new_id(d) == max_default(DOMAIN d, 0) + 1

\* create_item numbering by len(items) + 1 instead of max + 1
create_item_by_len(d, item) ==
    Outcome(setitem(d, Cardinality(DOMAIN d) + 1, item),
            Send(ReturnValue(ItemDict(Cardinality(DOMAIN d) + 1, item)),
                 HTTP_201_CREATED, NoHeaders))

\* POST /items/
create_item(d, item) ==
    Outcome(setitem(d, new_id(d), item),
            Send(ReturnValue(ItemDict(new_id(d), item)), HTTP_201_CREATED, NoHeaders))

\* replace_item written with items.setdefault: an existing entry is kept
replace_item_setdefault(d, item_id, item) ==
    Outcome(IF item_id \in DOMAIN d THEN d ELSE setitem(d, item_id, item),
            Send(ReturnValue(ItemDict(item_id, item)), HTTP_200_OK, NoHeaders))

\* PUT /items/{item_id}
replace_item(d, item_id, item) ==
    Outcome(setitem(d, item_id, item),
            Send(ReturnValue(ItemDict(item_id, item)), HTTP_200_OK, NoHeaders))

\* item.dict() with exclude_unset forgotten: unset fields come out as None
dict_all_fields(update) == [f \in Fields |-> update[f]]

\* item.dict(exclude_unset=True): the fields the body gave, null or not
dict_exclude_unset(update) == [f \in update.fields_set |-> update[f]]

\* a copy that skips None values, as exclude_none would
copy_skip_none(stored, update) ==
    [f \in Fields |->
        IF f \in DOMAIN update /\ update[f] # NULL THEN update[f] ELSE stored[f]]

\* stored.copy(update=...): the named fields replaced, without validation
copy(stored, update) ==
    [f \in Fields |-> IF f \in DOMAIN update THEN update[f] ELSE stored[f]]

\* PATCH /items/{item_id}
update_item(d, item_id, item) ==
    IF get(d, item_id) = <<>>
    THEN Outcome(d, Send(ReturnResponse(Response(HTTP_404_NOT_FOUND, EmptyBody)),
                         HTTP_200_OK, NoHeaders))
    ELSE LET updated == copy(d[item_id], dict_exclude_unset(item))
         IN  Outcome(setitem(d, item_id, updated),
                     Send(ReturnValue(ItemDict(item_id, updated)),
                          HTTP_200_OK, NoHeaders))

\* delete_item with the `del` forgotten
delete_item_keeps_entry(d, item_id) ==
    IF item_id \in DOMAIN d
    THEN Outcome(d, Send(ReturnResponse(Response(HTTP_204_NO_CONTENT, EmptyBody)),
                         HTTP_204_NO_CONTENT, NoHeaders))
    ELSE Outcome(d, Send(ReturnResponse(Response(HTTP_404_NOT_FOUND, EmptyBody)),
                         HTTP_204_NO_CONTENT, NoHeaders))

\* DELETE /items/{item_id}
delete_item(d, item_id) ==
    IF item_id \in DOMAIN d
    THEN Outcome(delitem(d, item_id),
                 Send(ReturnResponse(Response(HTTP_204_NO_CONTENT, EmptyBody)),
                      HTTP_204_NO_CONTENT, NoHeaders))
    ELSE Outcome(d, Send(ReturnResponse(Response(HTTP_404_NOT_FOUND, EmptyBody)),
                         HTTP_204_NO_CONTENT, NoHeaders))

\* head_item answering 200 whether or not the item exists
head_item_always_ok(d, item_id) ==
    Outcome(d, Send(ReturnResponse(Response(HTTP_200_OK, EmptyBody)),
                    HTTP_200_OK, NoHeaders))

\* HEAD /items/{item_id}
head_item(d, item_id) ==
    IF item_id \in DOMAIN d
    THEN Outcome(d, Send(ReturnResponse(Response(HTTP_200_OK, EmptyBody)),
                         HTTP_200_OK,
                         SetHeader(NoHeaders, "X-Item-Exists", "true")))
    ELSE Outcome(d, Send(ReturnResponse(Response(HTTP_404_NOT_FOUND, EmptyBody)),
                         HTTP_200_OK, NoHeaders))

\* OPTIONS /items/
options_items(d) ==
    Outcome(d, Send(ReturnResponse(Response(HTTP_204_NO_CONTENT, EmptyBody)),
                    HTTP_200_OK,
                    SetHeader(NoHeaders, "Allow",
                              "GET,POST,PUT,PATCH,DELETE,HEAD,OPTIONS")))

\* login with `or` in place of `and`
login_either_matches(d, username, password) ==
    IF username = "admin" \/ password = "secret"
    THEN Outcome(d, Send(ReturnValue([status |-> "success"]), HTTP_200_OK, NoHeaders))
    ELSE Outcome(d, Send(ReturnResponse(Response(HTTP_401_UNAUTHORIZED,
                                                 TextBody("Invalid credentials"))),
                         HTTP_200_OK, NoHeaders))

\* POST /login/
login(d, username, password) ==
    IF username = "admin" /\ password = "secret"
    THEN Outcome(d, Send(ReturnValue([status |-> "success"]), HTTP_200_OK, NoHeaders))
    ELSE Outcome(d, Send(ReturnResponse(Response(HTTP_401_UNAUTHORIZED,
                                                 TextBody("Invalid credentials"))),
                         HTTP_200_OK, NoHeaders))

\* POST /uploadfile/
upload_file(d, file) ==
    Outcome(d, Send(ReturnValue([filename |-> file.filename,
                                 size |-> Len(file.contents)]),
                    HTTP_200_OK, NoHeaders))

(***************************************************************************)
(* The state machine: one action per route.                                *)
(***************************************************************************)
NoRequest == [op |-> "none"]

Exchange(request, response) == [request |-> request, response |-> response]

\* module load: items = {}
Init ==
    /\ items = << >>
    /\ last = Exchange(NoRequest, Response(HTTP_200_OK, EmptyBody))
    /\ created = {}

Serve(request, outcome) ==
    /\ items' = outcome.items
    /\ last' = Exchange(request, outcome.response)

ReadItem ==
    \E item_id \in PathIds, q \in Queries :
        /\ Serve([op |-> "read_item", item_id |-> item_id, q |-> q],
                 read_item(items, item_id, q))
        /\ UNCHANGED created

CreateItem ==
    \E item \in ItemBodies :
        /\ new_id(items) <= MaxId
        /\ Serve([op |-> "create_item", item |-> item], create_item(items, item))
        /\ created' = created \cup {create_item(items, item).response.body.json.item_id}

ReplaceItem ==
    \E item_id \in PathIds, item \in ItemBodies :
        /\ Serve([op |-> "replace_item", item_id |-> item_id, item |-> item],
                 replace_item(items, item_id, item))
        /\ UNCHANGED created

UpdateItem ==
    \E item_id \in PathIds, item \in UpdateBodies :
        /\ Serve([op |-> "update_item", item_id |-> item_id, item |-> item],
                 update_item(items, item_id, item))
        /\ UNCHANGED created

DeleteItem ==
    \E item_id \in PathIds :
        /\ Serve([op |-> "delete_item", item_id |-> item_id],
                 delete_item(items, item_id))
        /\ UNCHANGED created

HeadItem ==
    \E item_id \in PathIds :
        /\ Serve([op |-> "head_item", item_id |-> item_id],
                 head_item(items, item_id))
        /\ UNCHANGED created

OptionsItems ==
    /\ Serve([op |-> "options_items"], options_items(items))
    /\ UNCHANGED created

Login ==
    \E username \in Usernames, password \in Passwords :
        /\ Serve([op |-> "login", username |-> username, password |-> password],
                 login(items, username, password))
        /\ UNCHANGED created

UploadFile ==
    \E file \in Uploads :
        /\ Serve([op |-> "upload_file", file |-> file], upload_file(items, file))
        /\ UNCHANGED created

Next ==
    \/ ReadItem
    \/ CreateItem
    \/ ReplaceItem
    \/ UpdateItem
    \/ DeleteItem
    \/ HeadItem
    \/ OptionsItems
    \/ Login
    \/ UploadFile

Spec == Init /\ [][Next]_vars

\* the same service when no client sends DELETE
NextNoDelete ==
    \/ ReadItem
    \/ CreateItem
    \/ ReplaceItem
    \/ UpdateItem
    \/ HeadItem
    \/ OptionsItems
    \/ Login
    \/ UploadFile

SpecNoDelete == Init /\ [][NextNoDelete]_vars

(***************************************************************************)
(* Properties.  In an action formula the request served by the step is     *)
(* last'.request and the response sent for it is last'.response; `items`   *)
(* is the dict before the request and items' the dict after it.            *)
(***************************************************************************)
Served(op) == last'.request.op = op

ServedId == last'.request.item_id

Sent == last'.response

Present(item_id) == item_id \in DOMAIN items

\* C1: over any sequence of create calls, served in any order the server
\* picks among concurrent clients (no DELETE among the requests), the ids
\* returned are pairwise distinct: a create never returns an id that an
\* earlier create returned.
C1_CreatedIdsDistinct ==
    [][Served("create_item") => Sent.body.json.item_id \notin created]_vars

C1_Witness ==
    /\ last.request.op = "create_item"
    /\ Cardinality(created) >= 2
    /\ last.response.body.json.item_id \in created

\* C2: every key of the store, and every id returned by create, is a
\* strictly positive integer.
C2_KeysPositive ==
    /\ \A k \in DOMAIN items : k > 0
    /\ \A k \in created : k > 0

\* C3: identifier assignment is monotonic: each id returned by create is
\* strictly greater than every id returned by an earlier create, whatever
\* PUT, PATCH and DELETE requests are served in between.
C3_CreatedIdsIncrease ==
    [][Served("create_item") =>
          \A k \in created : Sent.body.json.item_id > k]_vars

\* C4: create returns 201 with id = (maximum existing key) + 1, or 1 when
\* the store is empty; that id was not a key before the call, every earlier
\* entry is kept, and afterwards the store maps the id to the submitted item.
C4_CreateAssignsMaxPlusOne ==
    [][Served("create_item") =>
          LET id == Sent.body.json.item_id
          IN  /\ Sent.status_code = 201
              /\ IF DOMAIN items = {}
                 THEN id = 1
                 ELSE /\ id - 1 \in DOMAIN items
                      /\ \A k \in DOMAIN items : k <= id - 1
              /\ id \notin DOMAIN items
              /\ DOMAIN items' = DOMAIN items \cup {id}
              /\ \A k \in DOMAIN items : items'[k] = items[k]
              /\ items'[id] = last'.request.item
              /\ Sent.body.json = ItemDict(id, last'.request.item)]_vars

C4_Witness ==
    /\ last.request.op = "create_item"
    /\ last.response.status_code = 201
    /\ last.response.body.json.item_id = 2
    /\ DOMAIN items = {0, 1, 2}
    /\ items[2] = last.request.item

\* C5: PATCH, DELETE and HEAD on an id that is not in the store return 404
\* and leave the whole store unchanged; PATCH returns a success status only
\* when the id is in the store at the time of the call.
C5_AbsentIdIs404 ==
    [][/\ (Served("update_item") \/ Served("delete_item") \/ Served("head_item"))
            /\ ~Present(ServedId)
          => Sent.status_code = 404 /\ Sent.body = EmptyBody /\ items' = items
       /\ Served("update_item") /\ Sent.status_code < 400
          => Present(ServedId)]_vars

C5_Witness ==
    /\ last.request.op \in {"update_item", "delete_item", "head_item"}
    /\ last.response.status_code = 404
    /\ last.request.item_id \notin DOMAIN items
    /\ last.request.item_id \in created
    /\ items # << >>

\* C6: PATCH on an existing id stores and returns, with status 200, the
\* merge of the stored Item and the update: for each of the four fields, the
\* update's value if the body supplies the field and the stored value
\* otherwise.
C6_PatchMergesFields ==
    [][Served("update_item") /\ Present(ServedId) =>
          LET u == last'.request.item
          IN  /\ Sent.status_code = 200
              /\ Sent.body.kind = "json"
              /\ Sent.body.json.item_id = ServedId
              /\ DOMAIN items' = DOMAIN items
              /\ \A f \in Fields :
                    /\ items'[ServedId][f] =
                          IF f \in u.fields_set THEN u[f] ELSE items[ServedId][f]
                    /\ Sent.body.json[f] = items'[ServedId][f]]_vars

C6_Witness ==
    /\ last.request.op = "update_item"
    /\ last.response.status_code = 200
    /\ last.request.item.fields_set = {"price"}
    /\ items[last.request.item_id] = Item("Pen", NULL, "2.0", NULL)
    /\ last.response.body.json = ItemDict(last.request.item_id, Item("Pen", NULL, "2.0", NULL))

\* the body that omits the fields `update` sets explicitly to null
OmitNulls(update) ==
    [update EXCEPT !.fields_set = {f \in update.fields_set : update[f] # NULL}]

ExplicitNulls(update) == {f \in update.fields_set : update[f] = NULL}

\* C7 (as claimed): for PATCH on an existing id, a body that sets a field
\* explicitly to null has the same effect on the stored Item and on the
\* response as the body that omits that field.
C7_ExplicitNullSameAsOmitted ==
    [][Served("update_item") /\ Present(ServedId) =>
          LET omitted == update_item(items, ServedId, OmitNulls(last'.request.item))
          IN  items' = omitted.items /\ Sent = omitted.response]_vars

\* C7 (amended): for PATCH on an existing id, a field set explicitly to null
\* is stored and returned as null, while an omitted field keeps its stored
\* value; the two bodies have the same effect exactly when every field set
\* to null was already null in the stored Item.
C7_ExplicitNullOverwrites ==
    [][Served("update_item") /\ Present(ServedId) =>
          LET u == last'.request.item
              omitted == update_item(items, ServedId, OmitNulls(u))
          IN  /\ \A f \in ExplicitNulls(u) :
                    /\ items'[ServedId][f] = NULL
                    /\ Sent.body.json[f] = NULL
              /\ \A f \in ExplicitNulls(u) : omitted.items[ServedId][f] = items[ServedId][f]
              /\ (items' = omitted.items /\ Sent = omitted.response)
                    <=> \A f \in ExplicitNulls(u) : items[ServedId][f] = NULL]_vars

C7_Witness ==
    /\ last.request.op = "update_item"
    /\ last.response.status_code = 200
    /\ last.request.item.fields_set = {"description"}
    /\ items[last.request.item_id] = Item("Cup", NULL, "2.0", "0.1")
    /\ last.response.body.json.description = NULL

\* C8: PUT returns 200 whether or not the id existed before and leaves the
\* store mapping the id to the submitted item, every other entry unchanged;
\* the same PUT repeated on the resulting store changes nothing and sends
\* the same response.
C8_PutUpsertsIdempotently ==
    [][Served("replace_item") =>
          LET again == replace_item(items', ServedId, last'.request.item)
          IN  /\ Sent.status_code = 200
              /\ Sent.body.json = ItemDict(ServedId, last'.request.item)
              /\ DOMAIN items' = DOMAIN items \cup {ServedId}
              /\ items'[ServedId] = last'.request.item
              /\ \A k \in DOMAIN items \ {ServedId} : items'[k] = items[k]
              /\ again.items = items'
              /\ again.response = Sent]_vars

C8_Witness ==
    /\ last.request.op = "replace_item"
    /\ last.response.status_code = 200
    /\ last.request.item_id \in created
    /\ items[last.request.item_id] = last.request.item
    /\ Cardinality(DOMAIN items) >= 2

\* C9: HEAD on an id in the store returns 200 and the response sent carries
\* the header X-Item-Exists: true; on an absent id it returns 404.  (HEAD
\* leaves the store as it is, so the id is in the store after the request
\* exactly when it was before.)
C9_HeadCarriesHeader ==
    last.request.op = "head_item" =>
        IF last.request.item_id \in DOMAIN items
        THEN /\ last.response.status_code = 200
             /\ <<"X-Item-Exists", "true">> \in last.response.headers
        ELSE last.response.status_code = 404

\* C10: DELETE returns 204 and removes the entry exactly when the id is in
\* the store, and 404 otherwise; an id that is not in the store enters it
\* only by a create or a PUT, and until then DELETE, PATCH and HEAD on it
\* return 404.
C10_DeleteThen404 ==
    [][/\ Served("delete_item") =>
             IF Present(ServedId)
             THEN /\ Sent.status_code = 204
                  /\ DOMAIN items' = DOMAIN items \ {ServedId}
                  /\ \A k \in DOMAIN items' : items'[k] = items[k]
             ELSE Sent.status_code = 404 /\ items' = items
       /\ \A k \in DOMAIN items' \ DOMAIN items :
             \/ Served("create_item") /\ Sent.body.json.item_id = k
             \/ Served("replace_item") /\ ServedId = k
       /\ (Served("delete_item") \/ Served("update_item") \/ Served("head_item"))
            /\ ~Present(ServedId)
          => Sent.status_code = 404]_vars

C10_Witness ==
    /\ last.request.op = "delete_item"
    /\ last.response.status_code = 404
    /\ last.request.item_id \in created
    /\ last.request.item_id \notin DOMAIN items

\* C11: GET never returns 404 and never changes the store: in any store
\* state it returns 200 with the item stored at the id, or with item null
\* when the id is absent (so also right after a DELETE of that id), and
\* echoes item_id and q.
C11_GetAlways200 ==
    [][Served("read_item") =>
          /\ Sent.status_code = 200
          /\ Sent.body.kind = "json"
          /\ Sent.body.json.item_id = ServedId
          /\ Sent.body.json.q = last'.request.q
          /\ Sent.body.json.item =
                IF Present(ServedId) THEN <<items[ServedId]>> ELSE << >>
          /\ items' = items]_vars

\* a GET of an id that create returned and DELETE removed
C11_Witness ==
    /\ last.request.op = "read_item"
    /\ last.request.item_id \in created
    /\ last.request.item_id \notin DOMAIN items
    /\ last.response.status_code = 200
    /\ last.response.body.json.item = << >>

\* C12: OPTIONS /items/ returns 204 and the response sent carries the
\* header Allow: GET,POST,PUT,PATCH,DELETE,HEAD,OPTIONS, in every store
\* state.
C12_OptionsCarriesAllow ==
    last.request.op = "options_items" =>
        /\ last.response.status_code = 204
        /\ <<"Allow", "GET,POST,PUT,PATCH,DELETE,HEAD,OPTIONS">> \in last.response.headers

\* C13: login returns 200 with body {status: success} if and only if the
\* username is "admin" and the password is "secret"; every other pair gets
\* 401 with the text "Invalid credentials"; the store is left as it is and
\* the response is the same whatever the store holds.
C13_LoginLiteralPair ==
    [][Served("login") =>
          /\ IF last'.request.username = "admin" /\ last'.request.password = "secret"
             THEN /\ Sent.status_code = 200
                  /\ Sent.body = JsonBody([status |-> "success"])
             ELSE /\ Sent.status_code = 401
                  /\ Sent.body = TextBody("Invalid credentials")
          /\ items' = items
          /\ \A k \in DOMAIN items :
                login(delitem(items, k), last'.request.username,
                      last'.request.password).response = Sent]_vars

\* a wrong password for admin is refused while the store holds items
C13_Witness ==
    /\ last.request.op = "login"
    /\ last.request.username = "admin"
    /\ last.request.password # "secret"
    /\ last.response.status_code = 401
    /\ items # << >>

\* C14: every Item in the store satisfies the Item schema after any
\* sequence of validated POST, PUT, PATCH and DELETE requests: its name and
\* its price are never null.
C14_StoredItemsValid ==
    \A k \in DOMAIN items : items[k].name # NULL /\ items[k].price # NULL

\* the entries at the ids of K are the same before and after the step
SameEntries(K) ==
    \A k \in K :
        /\ (k \in DOMAIN items) <=> (k \in DOMAIN items')
        /\ k \in DOMAIN items => items'[k] = items[k]

AllIds == DOMAIN items \cup DOMAIN items'

\* C15: each request changes at most one store entry: PUT, PATCH and DELETE
\* on an id leave every entry at another id unchanged, create leaves every
\* entry that existed before unchanged and adds one, and GET, HEAD, OPTIONS,
\* login and upload leave the whole store unchanged.
C15_OneEntryPerRequest ==
    [][/\ (Served("replace_item") \/ Served("update_item") \/ Served("delete_item"))
          => SameEntries(AllIds \ {ServedId})
       /\ Served("create_item")
          => /\ SameEntries(DOMAIN items)
             /\ Cardinality(DOMAIN items' \ DOMAIN items) = 1
       /\ (Served("read_item") \/ Served("head_item") \/ Served("options_items")
             \/ Served("login") \/ Served("upload_file"))
          => items' = items]_vars

\* a DELETE that succeeded and left the other entries in the store
C15_Witness ==
    /\ last.request.op = "delete_item"
    /\ last.response.status_code = 204
    /\ Cardinality(DOMAIN items) >= 2
    /\ last.request.item_id \notin DOMAIN items

====
